---- MODULE Spec2Model ----
(***************************************************************************)
(* A model of the minutes-of-meeting generator (src/streamlit.py): the     *)
(* VTT cue parser, the segment merger, the window chunker, the concurrent  *)
(* per-window summarization fan-out and the "Generate Minutes" handler.    *)
(*                                                                         *)
(* Text is modelled at character level: a Python str is a sequence of      *)
(* one-character strings.  Python floats are modelled as IEEE-754 binary64 *)
(* values: a sign and a magnitude held as an exact binary fixed-point      *)
(* number (a sequence of limbs of LimbBits bits, least significant first,  *)
(* FracLimbs of them after the binary point), rounded to 53 significant    *)
(* bits, ties to even, after every operation, as the hardware does.        *)
(***************************************************************************)
EXTENDS Integers, Sequences, FiniteSets, TLC

(***************************************************************************)
(* Representation of numbers.                                              *)
(***************************************************************************)
\* Bits per limb of a fixed-point number (limb products stay below 2^31).
LimbBits == 16

\* Limbs after the binary point.  1/1000 >= 2^-10, so a quotient ms/1000
\* needs 10 + 53 bits and a guard bit: 64 bits.  Every other value of the
\* program is a multiple of a coarser power of two.
FracLimbs == 4

\* binary64 has a 53-bit significand.
Precision == 53

Base == 2 ^ LimbBits

(***************************************************************************)
(* Exact fixed-point naturals: limb sequences, least significant first,    *)
(* no zero limb at the top (equal values are equal sequences; 0 is << >>). *)
(***************************************************************************)
RECURSIVE Trim(_)
Trim(a) == IF a = << >> THEN a
           ELSE IF a[Len(a)] = 0 THEN Trim(SubSeq(a, 1, Len(a) - 1)) ELSE a

Limb(a, i) == IF i >= 1 /\ i <= Len(a) THEN a[i] ELSE 0

Zeros(k) == [i \in 1..k |-> 0]

RECURSIVE NatLimbs(_)
NatLimbs(n) == IF n = 0 THEN << >> ELSE <<n % Base>> \o NatLimbs(n \div Base)

\* the natural n as a fixed-point number
FromNat(n) == IF n = 0 THEN << >> ELSE Zeros(FracLimbs) \o NatLimbs(n)

RECURSIVE AddCarry(_, _, _, _)
AddCarry(a, b, i, c) ==
    IF i > Len(a) /\ i > Len(b)
    THEN IF c = 1 THEN <<1>> ELSE << >>
    ELSE LET t == Limb(a, i) + Limb(b, i) + c
         IN  <<t % Base>> \o AddCarry(a, b, i + 1, t \div Base)

MagAdd(a, b) == Trim(AddCarry(a, b, 1, 0))

RECURSIVE SubBorrow(_, _, _, _)
SubBorrow(a, b, i, c) ==
    IF i > Len(a) THEN << >>
    ELSE LET t == Limb(a, i) - Limb(b, i) - c
         IN  IF t < 0 THEN <<t + Base>> \o SubBorrow(a, b, i + 1, 1)
             ELSE <<t>> \o SubBorrow(a, b, i + 1, 0)

\* a - b for a >= b
MagSub(a, b) == Trim(SubBorrow(a, b, 1, 0))

MagLt(a, b) ==
    IF Len(a) # Len(b) THEN Len(a) < Len(b)
    ELSE \E i \in 1..Len(a) :
            /\ a[i] < b[i]
            /\ \A j \in (i + 1)..Len(a) : a[j] = b[j]

\* bit i of a, bit 1 the least significant
BitAt(a, i) ==
    (Limb(a, (i - 1) \div LimbBits + 1) \div (2 ^ ((i - 1) % LimbBits))) % 2

\* the number of significant bits of a
BitLen(a) ==
    IF a = << >> THEN 0
    ELSE LimbBits * (Len(a) - 1)
         + (CHOOSE k \in 1..LimbBits :
                2 ^ (k - 1) <= a[Len(a)] /\ a[Len(a)] < 2 ^ k)

\* Round to nearest, ties to even, at Precision significant bits.  sticky
\* says that the exact value has non-zero bits below the last bit of a.
RoundMag(a, sticky) ==
    IF BitLen(a) <= Precision THEN a
    ELSE LET d     == BitLen(a) - Precision
             dl    == d \div LimbBits
             db    == d % LimbBits
             guard == BitAt(a, d)
             rest  == sticky \/ \E i \in 1..(d - 1) : BitAt(a, i) = 1
             trunc == [i \in 1..Len(a) |->
                          IF i <= dl THEN 0
                          ELSE IF i = dl + 1 THEN a[i] - (a[i] % (2 ^ db))
                          ELSE a[i]]
         IN  IF guard = 1 /\ (rest \/ BitAt(a, d + 1) = 1)
             THEN MagAdd(trunc, Zeros(dl) \o <<2 ^ db>>)
             ELSE trunc

(***************************************************************************)
(* Python float values and the operations the program applies to them.     *)
(***************************************************************************)
Float(neg, mag) == [neg |-> neg /\ mag # << >>, mag |-> mag]

\* float(n) for an int n; exact for the ints of the model
IntToFloat(n) == IF n < 0 THEN Float(TRUE, FromNat(-n)) ELSE Float(FALSE, FromNat(n))

\* the exact sum of two floats, before rounding
ExactAdd(x, y) ==
    IF x.neg = y.neg THEN Float(x.neg, MagAdd(x.mag, y.mag))
    ELSE IF MagLt(x.mag, y.mag) THEN Float(y.neg, MagSub(y.mag, x.mag))
    ELSE Float(x.neg, MagSub(x.mag, y.mag))

FNeg(x) == Float(~x.neg, x.mag)

FRound(x) == Float(x.neg, RoundMag(x.mag, FALSE))

\* x + y and x - y on floats
FAdd(x, y) == FRound(ExactAdd(x, y))
FSub(x, y) == FRound(ExactAdd(x, FNeg(y)))

\* x < y and x <= y
FLt(x, y) ==
    IF x.neg # y.neg THEN x.neg
    ELSE IF x.neg THEN MagLt(y.mag, x.mag) ELSE MagLt(x.mag, y.mag)

FLe(x, y) == ~FLt(y, x)

\* Python's min(x, y): y if y < x, else x
FMin(x, y) == IF FLt(y, x) THEN y ELSE x

\* The limbs of the fraction r/d (r < d), least significant first, by long
\* division: <<limbs, remainder>> after k limbs.
RECURSIVE LongDiv(_, _, _)
LongDiv(r, d, k) ==
    IF k = 0 THEN <<<< >>, r>>
    ELSE LET t    == r * Base
             rest == LongDiv(t % d, d, k - 1)
         IN  <<Append(rest[1], t \div d), rest[2]>>

\* n / d for ints n >= 0 and d > 0: Python's true division
IntTrueDiv(n, d) ==
    LET q == LongDiv(n % d, d, FracLimbs)
        m == Trim(q[1] \o NatLimbs(n \div d))
    IN  Float(FALSE, RoundMag(m, q[2] # 0))

\* Limbs added below the binary point for the quotient of a float by an int.
GuardLimbs == 4

\* The limbs a[1..i] with r carried in from above, divided by d:
\* <<quotient limbs, remainder>>.
RECURSIVE DivLimbs(_, _, _, _)
DivLimbs(a, d, i, r) ==
    IF i = 0 THEN <<<< >>, r>>
    ELSE LET t    == r * Base + a[i]
             rest == DivLimbs(a, d, i - 1, t % d)
         IN  <<Append(rest[1], t \div d), rest[2]>>

RECURSIVE LimbsToNat(_)
LimbsToNat(a) == IF a = << >> THEN 0 ELSE a[1] + Base * LimbsToNat(Tail(a))

\* int(round(x / d)) for a float x and an int d > 0: the quotient rounded to
\* a float, then to the nearest integer, ties to even
RoundDiv(x, d) ==
    LET F    == FracLimbs + GuardLimbs
        a    == IF x.mag = << >> THEN << >> ELSE Zeros(GuardLimbs) \o x.mag
        q    == DivLimbs(a, d, Len(a), 0)
        m    == RoundMag(Trim(q[1]), q[2] # 0)
        ip   == IF Len(m) > F THEN LimbsToNat(SubSeq(m, F + 1, Len(m))) ELSE 0
        half == BitAt(m, F * LimbBits)
        low  == \E i \in 1..(F * LimbBits - 1) : BitAt(m, i) = 1
        r    == IF half = 1 /\ (low \/ ip % 2 = 1) THEN ip + 1 ELSE ip
    IN  IF x.neg THEN -r ELSE r

(***************************************************************************)
(* Python str values: sequences of one-character strings.                  *)
(***************************************************************************)
\* None.  Its element is no character, so it equals no str.
None == <<"None">>

Digits == <<"0", "1", "2", "3", "4", "5", "6", "7", "8", "9">>

Upper == {"A", "B", "C", "D", "E", "F", "G", "H", "I", "J", "K", "L", "M",
          "N", "O", "P", "Q", "R", "S", "T", "U", "V", "W", "X", "Y", "Z"}

Lower == {"a", "b", "c", "d", "e", "f", "g", "h", "i", "j", "k", "l", "m",
          "n", "o", "p", "q", "r", "s", "t", "u", "v", "w", "x", "y", "z"}

IsDigit(c) == \E d \in 1..10 : Digits[d] = c

\* \s, and what str.strip() removes
IsSpace(c) == c \in {" ", "\t", "\n", "\r", "\f"}

\* [\w .'\-]
IsNameChar(c) == IsDigit(c) \/ c \in Upper \/ c \in Lower
                 \/ c \in {"_", " ", ".", "'", "-"}

\* the k-th smallest element of a finite set of integers
Nth(S, k) == CHOOSE x \in S : Cardinality({y \in S : y < x}) = k - 1

\* The pieces of s between the positions in cuts (ascending), the last
\* piece running to the end of s.
Pieces(s, cuts) ==
    [k \in 1..(Cardinality(cuts) + 1) |->
        SubSeq(s,
               IF k = 1 THEN 1 ELSE Nth(cuts, k - 1) + 1,
               IF k > Cardinality(cuts) THEN Len(s) ELSE Nth(cuts, k) - 1)]

\* s.split(sep) for a one-character sep
Split(s, sep) == Pieces(s, {i \in 1..Len(s) : s[i] = sep})

\* raw.splitlines(): split at line breaks, no empty last line
SplitLines(s) ==
    LET p == Pieces(s, {i \in 1..Len(s) : s[i] = "\n"})
    IN  IF p[Len(p)] = << >> THEN SubSeq(p, 1, Len(p) - 1) ELSE p

\* s.strip()
Strip(s) ==
    LET keep == {i \in 1..Len(s) : ~IsSpace(s[i])}
    IN  IF keep = {} THEN << >>
        ELSE SubSeq(s, Nth(keep, 1), Nth(keep, Cardinality(keep)))

\* sep.join(parts)
RECURSIVE Join(_, _)
Join(sep, parts) ==
    IF parts = << >> THEN << >>
    ELSE IF Len(parts) = 1 THEN parts[1]
    ELSE parts[1] \o sep \o Join(sep, Tail(parts))

\* int(s) for a str of decimal digits
RECURSIVE IntOf(_)
IntOf(s) ==
    IF s = << >> THEN 0
    ELSE 10 * IntOf(SubSeq(s, 1, Len(s) - 1))
         + (CHOOSE d \in 0..9 : Digits[d + 1] = s[Len(s)])

\* the first position from p on that holds no whitespace (Len(s) + 1 if none)
SkipSpace(s, p) ==
    CHOOSE q \in p..(Len(s) + 1) :
        /\ q = Len(s) + 1 \/ ~IsSpace(s[q])
        /\ \A r \in p..(q - 1) : IsSpace(s[r])

\* does \d{2}:\d{2}:\d{2}\.\d{3} match s at position p
TimestampAt(s, p) ==
    /\ p + 11 <= Len(s)
    /\ \A k \in {0, 1, 3, 4, 6, 7, 9, 10, 11} : IsDigit(s[p + k])
    /\ s[p + 2] = ":" /\ s[p + 5] = ":" /\ s[p + 8] = "."

\* CUE_RE.match(s): << >> for no match, else m.groups() = <<start, end>>.
\* match() anchors the pattern at the first character of s only.
CUE_RE_match(s) ==
    IF ~TimestampAt(s, 1) THEN << >>
    ELSE LET a == SkipSpace(s, 13)
         IN  IF ~(a + 2 <= Len(s) /\ SubSeq(s, a, a + 2) = <<"-", "-", ">">>)
             THEN << >>
             ELSE LET b == SkipSpace(s, a + 3)
                  IN  IF TimestampAt(s, b)
                      THEN <<SubSeq(s, 1, 12), SubSeq(s, b, b + 11)>>
                      ELSE << >>

\* SPEAKER_COLON.match(s): << >> for no match, else <<group(1), group(2)>>.
\* ":" is not a name character, so the name ends at the first ":".
SPEAKER_COLON_match(s) ==
    LET p      == SkipSpace(s, 1)
        colons == {i \in (p + 1)..Len(s) : s[i] = ":"}
    IN  IF p > Len(s) \/ s[p] \notin Upper \/ colons = {} THEN << >>
        ELSE LET c == Nth(colons, 1)
                 q == SkipSpace(s, c + 1)
             IN  IF /\ c - p - 1 <= 40
                    /\ \A i \in (p + 1)..(c - 1) : IsNameChar(s[i])
                    /\ \A i \in q..Len(s) : s[i] # "\n"
                 THEN <<SubSeq(s, p, c - 1), SubSeq(s, q, Len(s))>>
                 ELSE << >>

(***************************************************************************)
(* parse_vtt                                                               *)
(***************************************************************************)
\* The inner while loop: the first j from j0 on at which it stops.  The
\* marker test is applied to lines[j] as it is, not stripped.
PayloadEnd(lines, j0) ==
    CHOOSE j \in j0..(Len(lines) + 1) :
        LET stops(k) == \/ k > Len(lines)
                        \/ Strip(lines[k]) = << >>
                        \/ CUE_RE_match(lines[k]) # << >>
        IN  stops(j) /\ \A k \in j0..(j - 1) : ~stops(k)

\* One cue: the segment made of the marker line i and the lines up to j.
Cue(lines, i, j) ==
    LET m     == CUE_RE_match(Strip(lines[i]))
        texts == [k \in 1..(j - i - 1) |-> Strip(lines[i + k])]
        text  == Join(<<" ">>, texts)
        m1    == SPEAKER_COLON_match(text)
    IN  [start   |-> m[1],
         end     |-> m[2],
         speaker |-> IF m1 # << >> THEN m1[1] ELSE None,
         text    |-> IF m1 # << >> THEN m1[2] ELSE text]

\* The outer while loop from line i on.
RECURSIVE ParseFrom(_, _, _)
ParseFrom(lines, i, out) ==
    IF i > Len(lines) THEN out
    ELSE IF CUE_RE_match(Strip(lines[i])) = << >>
         THEN ParseFrom(lines, i + 1, out)
         ELSE LET j == PayloadEnd(lines, i + 1)
              IN  ParseFrom(lines, j, Append(out, Cue(lines, i, j)))

parse_vtt(raw) == ParseFrom(SplitLines(raw), 1, << >>)

(***************************************************************************)
(* _sec                                                                    *)
(***************************************************************************)
_sec(ts) ==
    LET hms == Split(ts, ":")
        sms == Split(hms[3], ".")
    IN  FAdd(IntToFloat(IntOf(hms[1]) * 3600 + IntOf(hms[2]) * 60
                        + IntOf(sms[1])),
             IntTrueDiv(IntOf(sms[2]), 1000))

(***************************************************************************)
(* merge_short                                                             *)
(*                                                                         *)
(* The segments are dict objects: heap[k] is the object that segs[k]       *)
(* refers to, and merged is a list of references (indices into heap), so   *)
(* that the in-place update of merged[-1] is an update of that object.     *)
(***************************************************************************)
\* 0 <= _sec(s["start"]) - _sec(last["end"]) <= gap
GapOk(s, last, gap) ==
    LET d == FSub(_sec(s.start), _sec(last.end))
    IN  FLe(IntToFloat(0), d) /\ FLe(d, IntToFloat(gap))

\* does the loop body merge segs[k] into merged[-1]
Merges(heap, merged, k, gap) ==
    /\ merged # << >>
    /\ heap[k].speaker = heap[merged[Len(merged)]].speaker
    /\ GapOk(heap[k], heap[merged[Len(merged)]], gap)

\* One iteration of the for loop, on s = segs[k]: <<heap, merged>> after it.
MergeBody(heap, merged, k, gap) ==
    IF Merges(heap, merged, k, gap)
    THEN LET l == merged[Len(merged)]
         IN  <<[heap EXCEPT ![l].end  = heap[k].end,
                            ![l].text = @ \o <<" ">> \o heap[k].text],
               merged>>
    ELSE <<heap, Append(merged, k)>>

RECURSIVE MergeFrom(_, _, _, _)
MergeFrom(heap, merged, k, gap) ==
    IF k > Len(heap) THEN <<heap, merged>>
    ELSE LET r == MergeBody(heap, merged, k, gap)
         IN  MergeFrom(r[1], r[2], k + 1, gap)

\* the list a list of references stands for
Deref(heap, refs) == [i \in 1..Len(refs) |-> heap[refs[i]]]

merge_short(segs, gap) ==
    LET r == MergeFrom(segs, << >>, 1, gap) IN Deref(r[1], r[2])

(***************************************************************************)
(* chunk                                                                   *)
(***************************************************************************)
\* A membership test that takes a segment starting at wend.
Items_StartInclusive(segs, cur, wend) ==
    LET hit(s) == FLe(_sec(s.start), wend) /\ FLt(cur, _sec(s.end))
    IN  SelectSeq(segs, hit)

\* A membership test that takes only the segments ending inside the window.
Items_EndInside(segs, cur, wend) ==
    LET hit(s) == FLt(_sec(s.start), wend) /\ FLt(cur, _sec(s.end))
                  /\ FLe(_sec(s.end), wend)
    IN  SelectSeq(segs, hit)

\* the items of the window starting at cur: the test is against wend
Items(segs, cur, wend) ==
    LET hit(s) == FLt(_sec(s.start), wend) /\ FLt(cur, _sec(s.end))
    IN  SelectSeq(segs, hit)

\* One iteration of the while loop: the window appended, and the next cur.
ChunkBody(segs, cur, end_all, window, overlap) ==
    LET wend == FAdd(cur, IntToFloat(window))
    IN  [win |-> [start |-> cur,
                  end   |-> FMin(wend, end_all),
                  items |-> Items(segs, cur, wend)],
         cur |-> FSub(wend, IntToFloat(overlap))]

RECURSIVE ChunkLoop(_, _, _, _, _, _)
ChunkLoop(segs, cur, end_all, window, overlap, out) ==
    IF ~FLt(cur, end_all) THEN out
    ELSE LET b == ChunkBody(segs, cur, end_all, window, overlap)
         IN  ChunkLoop(segs, b.cur, end_all, window, overlap,
                       Append(out, b.win))

\* chunk(segs, window, overlap), for arguments on which the loop ends
chunk(segs, window, overlap) ==
    IF segs = << >> THEN << >>
    ELSE ChunkLoop(segs, _sec(segs[1].start), _sec(segs[Len(segs)].end),
                   window, overlap, << >>)

(***************************************************************************)
(* Inputs.                                                                 *)
(***************************************************************************)
\* at most this many lines in a raw text given to parse_vtt
MaxLines == 4
\* at most this many segments given to merge_short
MaxMergeSegs == 3
\* at most this many segments given to chunk
MaxChunkSegs == 2
\* the window and overlap arguments of chunk range over 1..MaxWindow and
\* 0..MaxOverlap
MaxWindow == 3
MaxOverlap == 3
\* chunk's loop is followed for at most this many iterations
MaxIter == 6
\* at most this many windows given to extract_topics
MaxChunks == 3
\* at most this many lines in an uploaded file
MaxFileLines == 3

\* all sequences over S of length at most n
SeqsUpTo(S, n) == UNION {[1..k -> S] : k \in 0..n}

TwoDigits(n) == <<Digits[(n \div 10) + 1], Digits[(n % 10) + 1]>>

\* the text HH:MM:SS.mmm
Timestamp(h, m, s, ms) ==
    TwoDigits(h) \o <<":">> \o TwoDigits(m) \o <<":">> \o TwoDigits(s)
    \o <<".", Digits[(ms \div 100) + 1]>> \o TwoDigits(ms % 100)

Arrow == <<" ", "-", "-", ">", " ">>

\* a cue-timing line
Marker(t1, t2) == t1 \o Arrow \o t2

Segment(t1, t2, spk, txt) ==
    [start |-> t1, end |-> t2, speaker |-> spk, text |-> txt]

VARIABLES
    \* parse_vtt: its argument, where the call stands, what it returned
    raw, ppc, parsed,
    \* merge_short: the objects of segs, the list merged (references), the
    \* index of the next segment of the for loop, the argument gap
    mheap, merged, mk, gap,
    \* chunk: its arguments, where the call stands, its locals cur, end_all
    \* and out
    csegs, window, overlap, cpc, cur, end_all, out,
    \* extract_topics: its argument, whether GOOGLE_API_KEY is set, each
    \* run(c) task's state and return value, the lists errors and topics,
    \* where the call stands
    chunks, key, task, results, errors, topics, epc,
    \* the "Generate Minutes" handler: the uploaded file (decoded), where
    \* the handler stands, segs, what the page shows
    vtt, hpc, hsegs, ui

parseVars   == <<raw, ppc, parsed>>
mergeVars   == <<mheap, merged, mk, gap>>
chunkVars   == <<csegs, window, overlap, cpc, cur, end_all, out>>
extractVars == <<chunks, key, task, results, errors, topics, epc>>
runVars     == <<vtt, hpc, hsegs, ui>>
vars == <<parseVars, mergeVars, chunkVars, extractVars, runVars>>

\* the parts of the program a specification leaves out stand idle
ParseIdle   == raw = << >> /\ ppc = "idle" /\ parsed = << >>
MergeIdle   == mheap = << >> /\ merged = << >> /\ mk = 0 /\ gap = 0
ChunkIdle   == /\ csegs = << >> /\ window = 0 /\ overlap = 0 /\ cpc = "idle"
               /\ cur = IntToFloat(0) /\ end_all = IntToFloat(0) /\ out = << >>
ExtractIdle == /\ chunks = << >> /\ key = FALSE /\ task = << >>
               /\ results = << >> /\ errors = << >> /\ topics = << >>
               /\ epc = "idle"
\* nothing rendered yet
NoUi == [shown |-> {}, topics |-> << >>, reason |-> "", issues |-> << >>,
         duration_min |-> 0]

RunIdle     == vtt = None /\ hpc = "idle" /\ hsegs = << >> /\ ui = NoUi

(***************************************************************************)
(* parse_vtt applied to a raw text.                                        *)
(***************************************************************************)
ParseLines ==
    { <<"W", "E", "B", "V", "T", "T">>,
      << >>,
      <<"7">>,
      <<"A", ":", " ", "h", "i">>,
      Marker(Timestamp(0, 0, 1, 0), Timestamp(0, 0, 2, 500)),
      <<" ">> \o Marker(Timestamp(0, 1, 3, 0), Timestamp(0, 1, 4, 0)) }

ParseInputs == {Join(<<"\n">>, ls) : ls \in SeqsUpTo(ParseLines, MaxLines)}

ParseInit ==
    /\ raw \in ParseInputs /\ ppc = "call" /\ parsed = << >>
    /\ MergeIdle /\ ChunkIdle /\ ExtractIdle /\ RunIdle

ParseCall ==
    /\ ppc = "call"
    /\ parsed' = parse_vtt(raw)
    /\ ppc' = "done"
    /\ UNCHANGED <<raw, mergeVars, chunkVars, extractVars, runVars>>

SpecParse == ParseInit /\ [][ParseCall]_vars

\* a cue-timing marker line: the line, its surrounding whitespace aside,
\* starts with HH:MM:SS.mmm --> HH:MM:SS.mmm
IsMarkerLine(line) == CUE_RE_match(Strip(line)) # << >>

\* the first line from j0 on that is blank or a marker (Len(lines) + 1 if
\* there is none)
BlockEnd(lines, j0) ==
    CHOOSE j \in j0..(Len(lines) + 1) :
        LET stops(k) == \/ k > Len(lines)
                        \/ Strip(lines[k]) = << >>
                        \/ IsMarkerLine(lines[k])
        IN  stops(j) /\ \A k \in j0..(j - 1) : ~stops(k)

\* C9: parse_vtt returns one segment per cue-timing marker line, in file
\* order, the k-th with the start and end of the k-th marker and with the
\* text of the non-blank lines that follow it up to the next blank line or
\* marker; a marker line is never taken into the text of the cue before it.
C9_OneSegmentPerMarker ==
    ppc = "done"
    => LET lines   == SplitLines(raw)
           markers == {i \in 1..Len(lines) : IsMarkerLine(lines[i])}
       IN  /\ Len(parsed) = Cardinality(markers)
           /\ \A k \in 1..Len(parsed) :
                parsed[k] = Cue(lines, Nth(markers, k),
                                BlockEnd(lines, Nth(markers, k) + 1))

(***************************************************************************)
(* merge_short applied to a list of segments, one loop iteration a step.   *)
(***************************************************************************)
MergeTimes == {Timestamp(0, 0, 0, 0), Timestamp(0, 0, 1, 400),
               Timestamp(0, 0, 4, 400)}

\* segments with start <= end
MergeSegments ==
    {Segment(p[1], p[2], spk, <<"x">>) :
        p \in {q \in MergeTimes \X MergeTimes : FLe(_sec(q[1]), _sec(q[2]))},
        spk \in {None, <<"A">>, <<"B">>}}

MergeInit ==
    /\ mheap \in SeqsUpTo(MergeSegments, MaxMergeSegs)
    /\ merged = << >> /\ mk = 1
    /\ gap \in {0, 3}
    /\ ParseIdle /\ ChunkIdle /\ ExtractIdle /\ RunIdle

MergeIter ==
    /\ mk >= 1 /\ mk <= Len(mheap)
    /\ LET r == MergeBody(mheap, merged, mk, gap)
       IN  mheap' = r[1] /\ merged' = r[2]
    /\ mk' = mk + 1
    /\ UNCHANGED <<gap, parseVars, chunkVars, extractVars, runVars>>

SpecMerge == MergeInit /\ [][MergeIter]_vars

\* the time a timestamp text denotes, in milliseconds
ExactMs(ts) ==
    LET hms == Split(ts, ":")
        sms == Split(hms[3], ".")
    IN  ((IntOf(hms[1]) * 60 + IntOf(hms[2])) * 60 + IntOf(sms[1])) * 1000
        + IntOf(sms[2])

\* C1: each iteration merges the incoming segment into the last retained one
\* exactly when their speakers are equal and 0 <= start - end <= gap (end
\* being the retained segment's end after earlier merges); a merge sets the
\* retained end to the incoming end and appends a space and the incoming
\* text; otherwise the incoming segment is appended unchanged.
C1_MergesExactlyWhenClose ==
    [][(mk' = mk + 1) =>
        LET s    == mheap[mk]
            l    == IF merged = << >> THEN 0 ELSE merged[Len(merged)]
            d    == ExactMs(s.start) - ExactMs(mheap[l].end)
            when == /\ merged # << >>
                    /\ s.speaker = mheap[l].speaker
                    /\ 0 <= d /\ d <= gap * 1000
        IN  IF when
            THEN /\ merged' = merged
                 /\ mheap' = [mheap EXCEPT
                                ![l].end  = s.end,
                                ![l].text = @ \o <<" ">> \o s.text]
            ELSE /\ merged' = Append(merged, mk)
                 /\ mheap' = mheap]_vars

(***************************************************************************)
(* chunk applied to a list of segments, one loop iteration a step.         *)
(***************************************************************************)
\* Segments with start <= end: some start where a window ends, one is longer
\* than every window, one has no length, and 0.100, 2.500 and 4.400 are not
\* exact in binary.
ChunkSegments ==
    {Segment(Timestamp(0, 0, p[1], p[2]), Timestamp(0, 0, p[3], p[4]),
             None, <<"x">>) :
        p \in {<<0, 0, 1, 0>>, <<0, 100, 2, 500>>, <<1, 0, 2, 500>>,
               <<2, 500, 4, 400>>, <<4, 400, 4, 400>>, <<0, 0, 4, 400>>}}

ChunkInit ==
    /\ csegs \in SeqsUpTo(ChunkSegments, MaxChunkSegs)
    /\ window \in 1..MaxWindow
    /\ overlap \in 0..MaxOverlap
    /\ cpc = "call"
    /\ cur = IntToFloat(0) /\ end_all = IntToFloat(0) /\ out = << >>
    /\ ParseIdle /\ MergeIdle /\ ExtractIdle /\ RunIdle

\* if not segs: return []; start_all, end_all = ...; out=[]; cur=start_all
ChunkEnter ==
    /\ cpc = "call"
    /\ IF csegs = << >>
       THEN cpc' = "done" /\ UNCHANGED <<cur, end_all>>
       ELSE /\ cpc' = "loop"
            /\ cur' = _sec(csegs[1].start)
            /\ end_all' = _sec(csegs[Len(csegs)].end)
    /\ UNCHANGED <<csegs, window, overlap, out,
                   parseVars, mergeVars, extractVars, runVars>>

\* one iteration of while cur < end_all
ChunkIter ==
    /\ cpc = "loop"
    /\ FLt(cur, end_all)
    /\ Len(out) < MaxIter
    /\ LET b == ChunkBody(csegs, cur, end_all, window, overlap)
       IN  out' = Append(out, b.win) /\ cur' = b.cur
    /\ UNCHANGED <<csegs, window, overlap, cpc, end_all,
                   parseVars, mergeVars, extractVars, runVars>>

\* the loop ends: return out
ChunkReturn ==
    /\ cpc = "loop"
    /\ ~FLt(cur, end_all)
    /\ cpc' = "done"
    /\ UNCHANGED <<csegs, window, overlap, cur, end_all, out,
                   parseVars, mergeVars, extractVars, runVars>>

ChunkNext == ChunkEnter \/ ChunkIter \/ ChunkReturn

SpecChunk == ChunkInit /\ [][ChunkNext]_vars

(***************************************************************************)
(* Properties of chunk.                                                    *)
(***************************************************************************)
\* the segments are sorted by start time
Sorted(segs) ==
    \A i \in 1..Len(segs) : \A j \in i..Len(segs) :
        FLe(_sec(segs[i].start), _sec(segs[j].start))

\* every segment has start < end
Proper(segs) ==
    \A i \in 1..Len(segs) : FLt(_sec(segs[i].start), _sec(segs[i].end))

\* the end of a window before clipping: start + window
NominalEnd(w) == FAdd(w.start, IntToFloat(window))

\* segment s is among the items of window w
InItems(s, w) == \E p \in 1..Len(w.items) : w.items[p] = s

\* b is exactly n after a: as real numbers, or at least as the floating-point
\* difference b - a or the floating-point sum a + n shows it
StepIs(a, b, n) ==
    \/ ExactAdd(b, FNeg(a)) = IntToFloat(n)
    \/ FSub(b, a) = IntToFloat(n)
    \/ FAdd(a, IntToFloat(n)) = b

\* C2: for non-empty segments sorted by start and 0 <= overlap < window, the
\* windows are in chronological order, the first starts at the first
\* segment's start, the last ends at the last segment's end, each window
\* after the first starts exactly window - overlap after the one before it,
\* and no gap is left between a window and the next.
C2_WindowsCoverSpan ==
    (cpc = "done" /\ csegs # << >> /\ Sorted(csegs) /\ overlap < window
     /\ out # << >>)
    => /\ out[1].start = _sec(csegs[1].start)
       /\ out[Len(out)].end = _sec(csegs[Len(csegs)].end)
       /\ \A i \in 1..(Len(out) - 1) :
            /\ FLt(out[i].start, out[i + 1].start)
            /\ StepIs(out[i].start, out[i + 1].start, window - overlap)
            /\ FLe(out[i + 1].start, out[i].end)

\* C3: every window but the final one is exactly window wide (its end is
\* its start + window); only the final window is clipped.
C3_OnlyFinalWindowShort ==
    (cpc = "done" /\ Sorted(csegs) /\ overlap < window)
    => \A i \in 1..(Len(out) - 1) : out[i].end = NominalEnd(out[i])

\* C4, as stated: a segment is in a window's items iff it starts before
\* the window's stored (clipped) end and ends after the window's start;
\* items keep the input order.
C4_ItemsByStoredEnd ==
    (cpc = "done" /\ Sorted(csegs))
    => \A i \in 1..Len(out) :
         LET hit(s) == /\ FLt(_sec(s.start), out[i].end)
                       /\ FLt(out[i].start, _sec(s.end))
         IN  out[i].items = SelectSeq(csegs, hit)

\* C4, amended: a segment is in a window's items iff it starts before the
\* window's unclipped end, start + window, and ends after the window's
\* start; items keep the input order.  When the segments are sorted by start
\* and the last one has start < end, the stored end gives the same items.
C4_ItemsByNominalEnd ==
    cpc = "done"
    => \A i \in 1..Len(out) :
         LET hit(s)    == /\ FLt(_sec(s.start), NominalEnd(out[i]))
                          /\ FLt(out[i].start, _sec(s.end))
             stored(s) == /\ FLt(_sec(s.start), out[i].end)
                          /\ FLt(out[i].start, _sec(s.end))
         IN  /\ out[i].items = SelectSeq(csegs, hit)
             /\ (Sorted(csegs) /\ FLt(_sec(csegs[Len(csegs)].start),
                                      _sec(csegs[Len(csegs)].end)))
                => out[i].items = SelectSeq(csegs, stored)

\* a segment straddles two windows and is in the items of both, and some
\* segment is left out of some window
C4_Witness ==
    /\ cpc = "done" /\ Len(out) >= 2
    /\ \E k \in 1..Len(csegs) :
         InItems(csegs[k], out[1]) /\ InItems(csegs[k], out[2])
    /\ \E k \in 1..Len(csegs) : \E i \in 1..Len(out) :
         ~InItems(csegs[k], out[i])

\* C5: the window start strictly increases on every loop iteration
\* (whatever window and overlap are), so that chunk returns.
C5_StartIncreases ==
    [][(cpc = "loop" /\ out' # out) => FLt(cur, cur')]_vars

\* C10: for non-empty segments sorted by start, each with start < end, and
\* 0 <= overlap < window, chunk returns, and every segment is in the items
\* of at least one returned window.
C10_NoSegmentLost ==
    (csegs # << >> /\ Sorted(csegs) /\ Proper(csegs) /\ overlap < window)
    => /\ (cpc = "loop" /\ FLt(cur, end_all)) => Len(out) < MaxIter
       /\ cpc = "done"
          => \A k \in 1..Len(csegs) :
               \E i \in 1..Len(out) : InItems(csegs[k], out[i])

\* chunk returned several windows, and the first does not hold every segment
C10_Witness ==
    /\ cpc = "done" /\ Sorted(csegs) /\ Proper(csegs) /\ overlap < window
    /\ Len(out) >= 2
    /\ \E k \in 1..Len(csegs) : ~InItems(csegs[k], out[1])

(***************************************************************************)
(* fmt_chunk, call_gemini, extract_topics                                  *)
(***************************************************************************)
\* fmt_chunk(ch): one line "[start] speaker: text" per item
fmt_chunk(ch) ==
    LET line(s) ==
            LET sp == IF s.speaker = None \/ s.speaker = << >>
                      THEN <<"U", "n", "k", "n", "o", "w", "n">>
                      ELSE s.speaker
            IN  <<"[">> \o s.start \o <<"]", " ">> \o sp \o <<":", " ">>
                \o s.text
    IN  Join(<<"\n">>, [k \in 1..Len(ch.items) |-> line(ch.items[k])])

\* the lists of topics a response may carry
TopicLists == {<< >>, <<"a">>, <<"b", "c">>}

\* What becomes of one request: the post fails (network_error), or the
\* response has a status >= 400 (http_error), no candidates (no_candidates),
\* a text that is no JSON (bad_json), a JSON value that is no object
\* (json_list), or a JSON object with these topics (json_object).
Responses ==
    {[kind |-> k, topics |-> << >>] :
        k \in {"network_error", "http_error", "no_candidates", "bad_json",
               "json_list"}}
    \cup {[kind |-> "json_object", topics |-> t] : t \in TopicLists}

NoResponse == [kind |-> "none", topics |-> << >>]

\* the dict {"topics": t}
TopicsDict(t) == [kind |-> "dict", topics |-> t]
\* a JSON array, which is no dict
JsonList == [kind |-> "list", topics |-> << >>]
\* run(c) has not returned
Pending == [kind |-> "pending", topics |-> << >>]

\* call_gemini's return value <<result, err>> for a response that the post
\* returned (the post did not raise); err = "" stands for None
call_gemini_result(resp) ==
    CASE resp.kind = "http_error"    -> <<Pending, "HTTP error">>
      [] resp.kind = "no_candidates" -> <<Pending, "No candidates returned">>
      [] resp.kind = "bad_json"      -> <<Pending, "Parse error">>
      [] resp.kind = "json_list"     -> <<JsonList, "">>
      [] resp.kind = "json_object"   -> <<TopicsDict(resp.topics), "">>

\* result or {"topics": []}, where result is None (Pending) on an error
ResultOrEmpty(result) ==
    IF result = Pending THEN TopicsDict(<< >>) ELSE result

\* asyncio.run(extract_topics(chs)) is entered: topics, errors = [], [];
\* gather makes one task per chunk
EnterExtract(chs) ==
    /\ chunks' = chs
    /\ task' = [i \in 1..Len(chs) |->
                  [st |-> "created", prompt |-> << >>, resp |-> NoResponse]]
    /\ results' = [i \in 1..Len(chs) |-> Pending]
    /\ errors' = << >>
    /\ topics' = << >>
    /\ epc' = "gathering"

\* Task i runs to its first suspension.  The tasks start in the order gather
\* made them.  Without an API key call_gemini returns the error at once.
TaskStart(i) ==
    /\ epc = "gathering"
    /\ task[i].st = "created"
    /\ \A j \in 1..(i - 1) : task[j].st # "created"
    /\ IF ~key
       THEN /\ task' = [task EXCEPT ![i].st = "done",
                                    ![i].prompt = fmt_chunk(chunks[i])]
            /\ errors' = Append(errors, "GOOGLE_API_KEY is missing")
            /\ results' = [results EXCEPT ![i] = TopicsDict(<< >>)]
       ELSE /\ task' = [task EXCEPT ![i].st = "posted",
                                    ![i].prompt = fmt_chunk(chunks[i])]
            /\ UNCHANGED <<errors, results>>
    /\ UNCHANGED <<chunks, key, topics, epc>>
    /\ UNCHANGED <<parseVars, mergeVars, chunkVars, runVars>>

\* The post of task i ends with resp and the task runs to its end: the post
\* raises, or call_gemini returns and run(c) appends err and returns.
TaskSettle(i, resp) ==
    /\ epc = "gathering"
    /\ task[i].st = "posted"
    /\ \A j \in 1..Len(task) : task[j].st # "created"
    /\ IF resp.kind = "network_error"
       THEN /\ task' = [task EXCEPT ![i].st = "raised", ![i].resp = resp]
            /\ UNCHANGED <<errors, results>>
       ELSE LET r == call_gemini_result(resp)
            IN  /\ task' = [task EXCEPT ![i].st = "done", ![i].resp = resp]
                /\ errors' = IF r[2] # "" THEN Append(errors, r[2])
                             ELSE errors
                /\ results' = [results EXCEPT ![i] = ResultOrEmpty(r[1])]
    /\ UNCHANGED <<chunks, key, topics, epc>>
    /\ UNCHANGED <<parseVars, mergeVars, chunkVars, runVars>>

\* A task raised: gather (return_exceptions is not set) hands the exception
\* to extract_topics, which does not catch it; asyncio.run cancels the tasks
\* still running.
ExtractRaise ==
    /\ epc = "gathering"
    /\ \E i \in 1..Len(task) : task[i].st = "raised"
    /\ epc' = "raised"
    /\ task' = [i \in 1..Len(task) |->
                  IF task[i].st \in {"created", "posted"}
                  THEN [task[i] EXCEPT !.st = "cancelled"]
                  ELSE task[i]]
    /\ UNCHANGED <<chunks, key, results, errors, topics>>
    /\ UNCHANGED <<parseVars, mergeVars, chunkVars, runVars>>

RECURSIVE ConcatTopics(_)
ConcatTopics(rs) ==
    IF rs = << >> THEN << >> ELSE rs[1].topics \o ConcatTopics(Tail(rs))

\* Every task returned: gather gives the results in the order of the
\* chunks; for r in results: topics.extend(r.get("topics", [])), which
\* raises AttributeError on a result that is no dict.
ExtractFinish ==
    /\ epc = "gathering"
    /\ \A i \in 1..Len(task) : task[i].st = "done"
    /\ IF \E i \in 1..Len(results) : results[i].kind # "dict"
       THEN epc' = "raised" /\ UNCHANGED topics
       ELSE epc' = "returned" /\ topics' = ConcatTopics(results)
    /\ UNCHANGED <<chunks, key, task, results, errors>>
    /\ UNCHANGED <<parseVars, mergeVars, chunkVars, runVars>>

(***************************************************************************)
(* extract_topics applied to a list of windows.                            *)
(***************************************************************************)
ExtractWindows ==
    {[start |-> IntToFloat(0), end |-> IntToFloat(360),
      items |-> <<Segment(Timestamp(0, 0, 1, 0), Timestamp(0, 0, 2, 0),
                          <<"A">>, <<"x">>)>>],
     [start |-> IntToFloat(340), end |-> IntToFloat(400),
      items |-> <<Segment(Timestamp(0, 6, 1, 0), Timestamp(0, 6, 40, 0),
                          None, <<"y">>)>>]}

ExtractInit ==
    /\ chunks \in SeqsUpTo(ExtractWindows, MaxChunks)
    /\ key \in BOOLEAN
    /\ task = << >> /\ results = << >> /\ errors = << >> /\ topics = << >>
    /\ epc = "call"
    /\ ParseIdle /\ MergeIdle /\ ChunkIdle /\ RunIdle

ExtractCall ==
    /\ epc = "call"
    /\ EnterExtract(chunks)
    /\ UNCHANGED key
    /\ UNCHANGED <<parseVars, mergeVars, chunkVars, runVars>>

ExtractNext ==
    \/ ExtractCall
    \/ \E i \in 1..Len(task) : TaskStart(i)
    \/ \E i \in 1..Len(task) : \E resp \in Responses : TaskSettle(i, resp)
    \/ ExtractRaise
    \/ ExtractFinish

SpecExtract == ExtractInit /\ [][ExtractNext]_vars

(***************************************************************************)
(* Properties of extract_topics.                                           *)
(***************************************************************************)
\* the request of window i failed
Failed(i) ==
    /\ task[i].st \in {"done", "raised"}
    /\ \/ ~key
       \/ task[i].resp.kind \in {"network_error", "http_error",
                                 "no_candidates", "bad_json"}

\* what the response of window i carries as topics
WindowTopics(i) ==
    IF task[i].resp.kind = "json_object" THEN task[i].resp.topics ELSE << >>

RECURSIVE ConcatWindowTopics(_)
ConcatWindowTopics(n) ==
    IF n = 0 THEN << >> ELSE ConcatWindowTopics(n - 1) \o WindowTopics(n)

\* C6: a failing request is reported as data.  No call raises, no request is
\* cancelled, extract_topics does not end with an exception, and a window
\* whose request failed has an entry in the error list and contributes an
\* empty topic list.
C6_FailuresAreData ==
    /\ \A i \in 1..Len(task) : task[i].st \notin {"raised", "cancelled"}
    /\ epc # "raised"
    /\ \A i \in 1..Len(task) :
          Failed(i) => results[i] = TopicsDict(<< >>)
    /\ Len(errors) >= Cardinality({i \in 1..Len(task) : Failed(i)})

\* C7: when extract_topics has ended, every request has settled, it has
\* returned the concatenation of the windows' topic lists in window order,
\* and the error list has one entry per window whose request failed.
C7_JoinInWindowOrder ==
    epc \in {"returned", "raised"} =>
        /\ \A i \in 1..Len(task) : task[i].st \in {"done", "raised"}
        /\ epc = "returned"
        /\ topics = ConcatWindowTopics(Len(task))
        /\ Len(errors) = Cardinality({i \in 1..Len(task) : Failed(i)})

(***************************************************************************)
(* The "Generate Minutes" handler.                                         *)
(***************************************************************************)
\* merge_short's default gap and the handler's window and overlap
DefaultGap == 3
HandlerWindow == 360
HandlerOverlap == 20

\* the lines an uploaded file is made of
RunLines ==
    {Marker(Timestamp(0, 0, 0, 0), Timestamp(0, 0, 5, 0)),
     Marker(Timestamp(0, 0, 5, 0), Timestamp(0, 0, 5, 0)),
     Marker(Timestamp(0, 6, 10, 0), Timestamp(0, 6, 20, 0)),
     <<"A", ":", " ", "h", "i">>}

\* the uploaded files, decoded
RunInputs == {Join(<<"\n">>, ls) : ls \in SeqsUpTo(RunLines, MaxFileLines)}

Init ==
    /\ vtt \in RunInputs \cup {None}
    /\ key \in BOOLEAN
    /\ hpc = "idle" /\ hsegs = << >> /\ ui = NoUi
    /\ chunks = << >> /\ task = << >> /\ results = << >> /\ errors = << >>
    /\ topics = << >> /\ epc = "idle"
    /\ ParseIdle /\ MergeIdle /\ ChunkIdle

\* The button is pressed with no file uploaded: the script ends.
ClickNoFile ==
    /\ hpc = "idle"
    /\ vtt = None
    /\ hpc' = "skipped"
    /\ UNCHANGED <<vtt, hsegs, ui, extractVars>>
    /\ UNCHANGED <<parseVars, mergeVars, chunkVars>>

\* The button is pressed with a file that yields no segment: st.error and
\* st.stop().
ClickNoCues ==
    /\ hpc = "idle"
    /\ vtt # None
    /\ merge_short(parse_vtt(vtt), DefaultGap) = << >>
    /\ ui' = [ui EXCEPT !.shown = {"no_cues_error"}]
    /\ hpc' = "stopped"
    /\ UNCHANGED <<vtt, hsegs, extractVars>>
    /\ UNCHANGED <<parseVars, mergeVars, chunkVars>>

\* The button is pressed with a file that yields segments: duration_min and
\* the windows are computed and asyncio.run(extract_topics(chs)) is entered.
ClickGenerate ==
    /\ hpc = "idle"
    /\ vtt # None
    /\ LET segs == merge_short(parse_vtt(vtt), DefaultGap)
       IN  /\ segs # << >>
           /\ hsegs' = segs
           /\ ui' = [ui EXCEPT !.duration_min =
                        RoundDiv(FSub(_sec(segs[Len(segs)].end),
                                      _sec(segs[1].start)), 60)]
           /\ EnterExtract(chunk(segs, HandlerWindow, HandlerOverlap))
    /\ hpc' = "summarizing"
    /\ UNCHANGED <<vtt, key>>
    /\ UNCHANGED <<parseVars, mergeVars, chunkVars>>

\* extract_topics returned: the summary (with a warning when there is no
\* topic), the email draft (with a reason when there is no topic), the
\* issues (when there are errors) and the download of minutes.json.
Render ==
    /\ hpc = "summarizing"
    /\ epc = "returned"
    /\ ui' = [ui EXCEPT
                !.shown = {"summary", "email_draft", "minutes_json"}
                          \cup (IF topics = << >> THEN {"warning"} ELSE {})
                          \cup (IF errors # << >> THEN {"issues"} ELSE {}),
                !.topics = topics,
                !.reason = IF topics # << >> THEN ""
                           ELSE IF errors # << >> THEN errors[1]
                           ELSE "No extractable content detected",
                !.issues = errors]
    /\ hpc' = "rendered"
    /\ UNCHANGED <<vtt, hsegs, extractVars>>
    /\ UNCHANGED <<parseVars, mergeVars, chunkVars>>

\* extract_topics raised: the exception leaves the script, nothing more is
\* rendered.
Crash ==
    /\ hpc = "summarizing"
    /\ epc = "raised"
    /\ hpc' = "crashed"
    /\ UNCHANGED <<vtt, hsegs, ui, extractVars>>
    /\ UNCHANGED <<parseVars, mergeVars, chunkVars>>

Next ==
    \/ ClickNoFile
    \/ ClickNoCues
    \/ ClickGenerate
    \/ \E i \in 1..Len(task) : TaskStart(i)
    \/ \E i \in 1..Len(task) : \E resp \in Responses : TaskSettle(i, resp)
    \/ ExtractRaise
    \/ ExtractFinish
    \/ Render
    \/ Crash

Spec == Init /\ [][Next]_vars

\* C8: a run whose window sequence is empty ends in the "no cues" condition:
\* the blocking error is shown, no request was made and no summary, email
\* draft or JSON was produced.
C8_EmptyWindowsAreNoCues ==
    (hpc \in {"stopped", "rendered", "crashed"} /\ chunks = << >>) =>
        /\ hpc = "stopped"
        /\ "no_cues_error" \in ui.shown
        /\ task = << >>
        /\ ui.shown \cap {"summary", "email_draft", "minutes_json"} = {}

====
